---- MODULE Spec2Model ----
(***************************************************************************)
(* The MGNREGA ingestion pipeline: the scheduled entry point               *)
(* fetch_mgnrega_data (app/scheduler.py), the four write functions of      *)
(* app/crud.py and the schema the statements run against (app/models.py).  *)
(*                                                                         *)
(* Storage is the four tables of models.py.  Every crud function is        *)
(* modelled on a unit of work: it works on a copy of the table, db.commit()*)
(* publishes the copy, an exception leaves the committed rows as they were.*)
(*                                                                         *)
(* Names are resolved the way Python and SQLAlchemy resolve them: a module *)
(* attribute, a mapped class or a column that the source does not define   *)
(* raises at the place that uses it.  The sets of names below are copied   *)
(* from the source, so that each such failure is derived, not assumed.     *)
(***************************************************************************)
EXTENDS Integers, Sequences, FiniteSets, TLC

\* Python's None (dict.get of a missing key, a NULL column).
None == "None"
\* record.get("State_ID") when the key is missing; primary keys start at 1.
NoId == 0

(***************************************************************************)
(* Bounds of the model.                                                    *)
(***************************************************************************)
MaxLen == 2

(***************************************************************************)
(* app/models.py: mapped classes, their columns and constraints.           *)
(***************************************************************************)
ModelsClasses == {"States", "Districts", "MGNREGAData", "RawAPICache"}

StatesColumns == {"id", "state_name", "state_code"}

DistrictsColumns == {"id", "district_name", "district_code", "state_id"}

MGNREGADataColumns ==
    {"id", "district_id", "approved_labour_budget",
     "average_wage_rate_per_day_per_person",
     "differently_abled_persons_worked", "material_and_skilled_wages",
     "number_of_complted_projects", "number_of_gp_with_nil_exp",
     "number_of_ongoing_works", "persondays_of_central_liability_so_far",
     "sc_persondays", "sc_workers_against_Active_workers", "st_persondays",
     "st_workers_against_Active_workers", "total_adm_expenditure",
     "total_exp", "total_households_worked", "total_individuals_worked",
     "total_num_of_active_job_cards", "total_num_of_active_workers",
     "total_num_of_hh_completed_100_day_wage_employment",
     "total_num_of_job_cards_issued", "total_num_of_workers",
     "total_num_of_works_takenup", "wages", "women_persondays",
     "percent_of_category_B_works",
     "percentage_of_expenditure_on_agriculture_allied_works",
     "percent_of_NRM_expenditure",
     "percentage_payments_generated_within_15_days", "remarks", "timestamp",
     "data_fetched_on", "updated_at"}

\* Columns of mgnrega_data that carry a primary key or unique=True: the only
\* columns PostgreSQL accepts as an ON CONFLICT target.
MGNREGADataUniqueColumns == {"id"}

\* Columns of mgnrega_data that are filled without the statement naming them:
\* the serial primary key, the nullable ones and the server default.
MGNREGADataOptionalColumns == {"id", "remarks", "data_fetched_on", "updated_at"}

(***************************************************************************)
(* app/crud.py: the names the module defines, and the column names its     *)
(* statements use.                                                         *)
(***************************************************************************)
CrudFunctions ==
    {"upsert_states", "upsert_districts", "upsert_mgnrega_data",
     "save_raw_api_cache"}

\* set_ of the states statement.
StatesSetColumns == {"state_name", "updated_at"}

\* set_ of the districts statement.
DistrictsSetColumns == {"district_name", "state_id", "updated_at"}

\* .values(...) of the fact statement.
FactValuesColumns ==
    {"district_id", "approved_labour_budget",
     "average_wage_rate_per_day_per_person",
     "average_days_of_employment_per_household",
     "differently_abled_persons_worked", "material_and_skilled_wages",
     "number_of_completed_works", "number_of_gps_with_nil_exp",
     "number_of_ongoing_works", "persondays_of_central_liability_so_far",
     "sc_persondays", "sc_workers_against_active_workers", "st_persondays",
     "st_workers_against_active_workers", "total_adm_expenditure",
     "total_exp", "total_households_worked", "total_individuals_worked",
     "total_no_of_active_job_cards", "total_no_of_active_workers",
     "total_no_of_hh_completed_100_days_of_wage_employemt",
     "total_no_of_jobcards_issued", "total_no_of_workers",
     "total_no_of_works_takenup", "wages", "women_persondays",
     "percent_of_category_b_works",
     "percentage_of_expenditure_on_agriculture_allied_works",
     "percent_of_NRM_expenditure",
     "percentage_payments_generated_within_15_days"}

\* The columns the fact statement's set_ reads as stmt.excluded.<column>:
\* every key of set_ but "updated_at", which is set to func.now().
FactExcludedColumns == FactValuesColumns \ {"district_id"}

(***************************************************************************)
(* Inputs.  A record is one element of the API's "records" array, a dict   *)
(* read with record.get(key): a missing key reads as None.  The metric     *)
(* columns are all read the same way (record.get of one key each), so one  *)
(* of them, Approved_Labour_Budget, stands for the metric values of the    *)
(* record.  The API delivers its values as strings.                        *)
(***************************************************************************)
Rec(sc, sn, dc, dn, sid, alb) ==
    [state_code |-> sc, state_name |-> sn, district_code |-> dc,
     District |-> dn, District_Code |-> dc, State_ID |-> sid,
     Approved_Labour_Budget |-> alb]

Records ==
    {Rec("27", "MAH", "2701", "PUNE", 1, "10"),
     Rec("27", "MAHARASHTRA", "2701", "PUNE", 1, "20"),
     Rec("27", "MAHARASHTRA", "2702", "NASHIK", 1, None),
     Rec("27", "MAHARASHTRA", "", None, NoId, "10"),
     Rec("09", "UTTAR PRADESH", "0901", "AGRA", 2, "20")}

Batches == UNION {[1..n -> Records] : n \in 0..MaxLen}

(***************************************************************************)
(* Storage: the committed rows of the four tables.                         *)
(***************************************************************************)
Storage(s, d, m, c) ==
    [states |-> s, districts |-> d, mgnrega_data |-> m, raw_api_cache |-> c]

StateRow(i, code, name) == [id |-> i, state_code |-> code, state_name |-> name]

DistrictRow(i, code, name, sid) ==
    [id |-> i, district_code |-> code, district_name |-> name, state_id |-> sid]

FactRow(i, did, alb) == [id |-> i, district_id |-> did, metrics |-> alb]

\* The next value of a table's serial primary key.
NextId(tbl) ==
    IF tbl = {} THEN 1
    ELSE 1 + (CHOOSE i \in {r.id : r \in tbl} : \A r \in tbl : r.id <= i)

\* The database outlives the process: main.py creates only the tables that are
\* missing, so a run starts on whatever rows the database already holds.
InitStorages ==
    LET s == {StateRow(1, "27", "MAHARASHTRA")}
        d == {DistrictRow(1, "2701", "PUNE", 1), DistrictRow(2, "2702", "NASHIK", 1)}
        m == {FactRow(1, 1, "10"), FactRow(2, 2, "10")}
    IN  {Storage({}, {}, {}, <<>>), Storage(s, {}, {}, <<>>),
         Storage(s, d, {}, <<>>), Storage(s, d, m, <<>>)}

(***************************************************************************)
(* crud.upsert_states                                                      *)
(***************************************************************************)
\* ExecuteStatesStmt with a seeded fault: a plain INSERT, with no ON CONFLICT
\* clause and no unique index to stop it.
ExecuteStatesStmtInsert(tbl, record) ==
    [tbl |-> tbl \cup {StateRow(NextId(tbl), record.state_code, record.state_name)},
     exc |-> "none"]

\* db.execute(stmt) of one states statement:
\*   INSERT INTO states (state_code, state_name) VALUES (..)
\*   ON CONFLICT (state_code) DO UPDATE SET state_name = excluded.state_name,
\*                                          updated_at = now()
\* against the table models.States declares.
ExecuteStatesStmt(tbl, record) ==
    LET code == record.state_code
        name == record.state_name
        same == {r \in tbl : r.state_code = code}
        others == tbl \ same
    IN  IF ~(StatesSetColumns \subseteq StatesColumns)
        THEN [tbl |-> tbl, exc |-> "ProgrammingError"]
        ELSE IF code = None \/ name = None
        THEN [tbl |-> tbl, exc |-> "IntegrityError"]
        ELSE IF \E r \in others : r.state_name = name
        THEN [tbl |-> tbl, exc |-> "IntegrityError"]
        ELSE IF same # {}
        THEN [tbl |-> others \cup {[r EXCEPT !.state_name = name] : r \in same},
              exc |-> "none"]
        ELSE [tbl |-> tbl \cup {StateRow(NextId(tbl), code, name)},
              exc |-> "none"]

\* The for loop of upsert_states: one statement per record, in input order,
\* all in one transaction; the first exception leaves the loop.
RECURSIVE StatesLoop(_, _, _)
StatesLoop(tbl, records, writes) ==
    IF records = <<>> THEN [tbl |-> tbl, exc |-> "none", writes |-> writes]
    ELSE LET e == ExecuteStatesStmt(tbl, Head(records))
         IN  IF e.exc # "none"
             THEN [tbl |-> tbl, exc |-> e.exc, writes |-> writes + 1]
             ELSE StatesLoop(e.tbl, Tail(records), writes + 1)

\* A call's result: the committed storage afterwards, the exception that
\* reaches the caller ("none": the call returned), the count that the returned
\* message states, the returned status, the number of write statements the
\* call handed to the session and the number of db.commit() calls it made.
Result(db, exc, count, status, writes, commits) ==
    [db |-> db, exc |-> exc, count |-> count, status |-> status,
     writes |-> writes, commits |-> commits]

upsert_states(db, records) ==
    LET l == StatesLoop(db.states, records, 0)
    IN  IF l.exc # "none" THEN Result(db, l.exc, 0, None, l.writes, 0)
        ELSE Result([db EXCEPT !.states = l.tbl], "none", Len(records),
                    "message", l.writes, 1)

(***************************************************************************)
(* crud.upsert_districts                                                   *)
(***************************************************************************)
\* db.execute(stmt) of one districts statement:
\*   INSERT INTO districts (district_name, district_code, state_id) VALUES (..)
\*   ON CONFLICT (district_code) DO UPDATE SET district_name = .., state_id = ..,
\*                                             updated_at = now()
\* against the table models.Districts declares (state_id references states.id).
ExecuteDistrictsStmt(tbl, statesTbl, record) ==
    LET code == record.District_Code
        name == record.District
        sid  == record.State_ID
        same == {r \in tbl : r.district_code = code}
        others == tbl \ same
    IN  IF ~(DistrictsSetColumns \subseteq DistrictsColumns)
        THEN [tbl |-> tbl, exc |-> "ProgrammingError"]
        ELSE IF code = None \/ name = None \/ sid = NoId
        THEN [tbl |-> tbl, exc |-> "IntegrityError"]
        ELSE IF \E r \in others : r.district_name = name
        THEN [tbl |-> tbl, exc |-> "IntegrityError"]
        ELSE IF ~(\E st \in statesTbl : st.id = sid)
        THEN [tbl |-> tbl, exc |-> "IntegrityError"]
        ELSE IF same # {}
        THEN [tbl |-> others \cup
                      {[r EXCEPT !.district_name = name, !.state_id = sid] : r \in same},
              exc |-> "none"]
        ELSE [tbl |-> tbl \cup {DistrictRow(NextId(tbl), code, name, sid)},
              exc |-> "none"]

\* DistrictsBatchLoop with a seeded fault: the statement is bound before it is
\* read and the table has no foreign key on state_id, so every record is stored
\* with the State_ID it carries.
RECURSIVE DistrictsBatchLoopNoForeignKey(_, _, _, _, _)
DistrictsBatchLoopNoForeignKey(tbl, statesTbl, batch, stmtBound, writes) ==
    IF batch = <<>>
    THEN [tbl |-> tbl, exc |-> "none", stmtBound |-> TRUE, writes |-> writes]
    ELSE LET record == Head(batch)
             same == {r \in tbl : r.district_code = record.District_Code}
             id == IF same = {} THEN NextId(tbl) ELSE (CHOOSE r \in same : TRUE).id
             row == DistrictRow(id, record.District_Code, record.District,
                                record.State_ID)
         IN  DistrictsBatchLoopNoForeignKey((tbl \ same) \cup {row}, statesTbl,
                                            Tail(batch), TRUE, writes + 1)

\* The inner for loop of upsert_districts.  The statement is built as
\*   stmt = insert(..).values(..).on_conflict_do_update(.., set_={.. stmt.excluded ..})
\* so the argument reads the local stmt before this assignment binds it: stmtBound
\* says whether an earlier iteration of the call has bound it.
RECURSIVE DistrictsBatchLoop(_, _, _, _, _)
DistrictsBatchLoop(tbl, statesTbl, batch, stmtBound, writes) ==
    IF batch = <<>>
    THEN [tbl |-> tbl, exc |-> "none", stmtBound |-> stmtBound, writes |-> writes]
    ELSE IF ~stmtBound
    THEN [tbl |-> tbl, exc |-> "UnboundLocalError", stmtBound |-> FALSE,
          writes |-> writes]
    ELSE LET e == ExecuteDistrictsStmt(tbl, statesTbl, Head(batch))
         IN  IF e.exc # "none"
             THEN [tbl |-> tbl, exc |-> e.exc, stmtBound |-> TRUE,
                   writes |-> writes + 1]
             ELSE DistrictsBatchLoop(e.tbl, statesTbl, Tail(batch), TRUE, writes + 1)

\* The outer loop: records[i:i+batch_size], db.commit() after each batch.  tbl is
\* the committed table: a batch that raises leaves the batches before it stored.
RECURSIVE DistrictsBatches(_, _, _, _, _, _, _)
DistrictsBatches(tbl, statesTbl, records, size, stmtBound, writes, commits) ==
    IF records = <<>>
    THEN [tbl |-> tbl, exc |-> "none", writes |-> writes, commits |-> commits]
    ELSE LET n == IF size < Len(records) THEN size ELSE Len(records)
             b == DistrictsBatchLoop(tbl, statesTbl, SubSeq(records, 1, n),
                                     stmtBound, writes)
         IN  IF b.exc # "none"
             THEN [tbl |-> tbl, exc |-> b.exc, writes |-> b.writes,
                   commits |-> commits]
             ELSE DistrictsBatches(b.tbl, statesTbl,
                                   SubSeq(records, n + 1, Len(records)), size,
                                   b.stmtBound, b.writes, commits + 1)

\* Default of the batch_size parameter.
batch_size == 200

upsert_districts(db, records, size) ==
    LET l == DistrictsBatches(db.districts, db.states, records, size, FALSE, 0, 0)
    IN  IF l.exc # "none"
        THEN Result([db EXCEPT !.districts = l.tbl], l.exc, 0, None, l.writes,
                    l.commits)
        ELSE Result([db EXCEPT !.districts = l.tbl], "none", Len(records),
                    "message", l.writes, l.commits)

(***************************************************************************)
(* crud.upsert_mgnrega_data                                                *)
(***************************************************************************)
\* ExecuteFactRecord with a seeded fault: a plain INSERT of the record's
\* values, with no ON CONFLICT clause.
ExecuteFactRecordInsert(tbl, district_id, record) ==
    [tbl |-> tbl \cup {FactRow(NextId(tbl), district_id,
                               record.Approved_Labour_Budget)},
     exc |-> "none", sent |-> TRUE]

\* One record that resolved to a district: the statement is built (values,
\* then set_ from stmt.excluded) and executed,
\*   INSERT INTO mgnrega_data (district_id, ..) VALUES (..)
\*   ON CONFLICT (district_id) DO UPDATE SET <every value column> = excluded..,
\*                                           updated_at = now()
\* against the table models.MGNREGAData declares.  sent says whether the
\* statement reached db.execute.
ExecuteFactRecord(tbl, district_id, record) ==
    LET same == {r \in tbl : r.district_id = district_id}
        alb  == record.Approved_Labour_Budget
    IN  IF ~(FactExcludedColumns \subseteq MGNREGADataColumns)
        THEN [tbl |-> tbl, exc |-> "AttributeError", sent |-> FALSE]
        ELSE IF ~(FactValuesColumns \subseteq MGNREGADataColumns)
        THEN [tbl |-> tbl, exc |-> "CompileError", sent |-> TRUE]
        ELSE IF "district_id" \notin MGNREGADataUniqueColumns
        THEN [tbl |-> tbl, exc |-> "ProgrammingError", sent |-> TRUE]
        ELSE IF alb = None
                \/ ~(MGNREGADataColumns \subseteq
                        FactValuesColumns \cup MGNREGADataOptionalColumns)
        THEN [tbl |-> tbl, exc |-> "IntegrityError", sent |-> TRUE]
        ELSE IF same # {}
        THEN [tbl |-> (tbl \ same) \cup {[r EXCEPT !.metrics = alb] : r \in same},
              exc |-> "none", sent |-> TRUE]
        ELSE [tbl |-> tbl \cup {FactRow(NextId(tbl), district_id, alb)},
              exc |-> "none", sent |-> TRUE]

\* The for loop of upsert_mgnrega_data: a record with a falsy district_code, or
\* one whose code matches no district row, is passed over.
RECURSIVE FactsLoop(_, _, _, _)
FactsLoop(tbl, districtsTbl, records, writes) ==
    IF records = <<>> THEN [tbl |-> tbl, exc |-> "none", writes |-> writes]
    ELSE LET record == Head(records)
             found == {d \in districtsTbl : d.district_code = record.district_code}
         IN  IF record.district_code \in {None, ""} \/ found = {}
             THEN FactsLoop(tbl, districtsTbl, Tail(records), writes)
             ELSE LET district == CHOOSE d \in found : TRUE
                      e == ExecuteFactRecord(tbl, district.id, record)
                      w == IF e.sent THEN writes + 1 ELSE writes
                  IN  IF e.exc # "none"
                      THEN [tbl |-> tbl, exc |-> e.exc, writes |-> w]
                      ELSE FactsLoop(e.tbl, districtsTbl, Tail(records), w)

upsert_mgnrega_data(db, records) ==
    LET l == FactsLoop(db.mgnrega_data, db.districts, records, 0)
    IN  IF l.exc # "none" THEN Result(db, l.exc, 0, None, l.writes, 0)
        ELSE Result([db EXCEPT !.mgnrega_data = l.tbl], "none", Len(records),
                    "message", l.writes, 1)

(***************************************************************************)
(* crud.save_raw_api_cache                                                 *)
(***************************************************************************)
\* The mapped class and the keyword arguments the cache entry is built from.
CacheEntryClass == "APICache"

CacheEntryKeywords == {"api_url", "response_json", "timestamp"}

\* Columns of raw_api_cache.
RawAPICacheColumns == {"id", "api_url", "response_data", "timestamp"}

\* The body of the try block: build the entry, db.add, db.commit.
CacheEntryAttempt(db, api_url, response_json) ==
    IF CacheEntryClass \notin ModelsClasses
    THEN [db |-> db, exc |-> "AttributeError", writes |-> 0]
    ELSE IF ~(CacheEntryKeywords \subseteq RawAPICacheColumns)
    THEN [db |-> db, exc |-> "TypeError", writes |-> 0]
    ELSE [db |-> [db EXCEPT !.raw_api_cache =
                     Append(@, [api_url |-> api_url,
                                response_data |-> response_json,
                                timestamp |-> Len(@) + 1])],
          exc |-> "none", writes |-> 1]

\* save_raw_api_cache with a seeded fault: the except clause rolls back and
\* re-raises.
save_raw_api_cache_raise(db, api_url, response_json) ==
    LET a == CacheEntryAttempt(db, api_url, response_json)
    IN  IF a.exc # "none" THEN Result(db, a.exc, 0, None, a.writes, 0)
        ELSE Result(a.db, "none", 0, "saved", a.writes, 1)

\* try: .. return {"status": "saved"}
\* except Exception: db.rollback(); return {"status": "error"}
save_raw_api_cache(db, api_url, response_json) ==
    LET a == CacheEntryAttempt(db, api_url, response_json)
    IN  IF a.exc # "none" THEN Result(db, "none", 0, "error", a.writes, 0)
        ELSE Result(a.db, "none", 0, "saved", a.writes, 1)

(***************************************************************************)
(* scheduler.fetch_mgnrega_data                                            *)
(***************************************************************************)
\* config.MGNREGA_API_URL, read from the environment.
MGNREGA_API_URL == "MGNREGA_API_URL"

\* The attributes of crud the three write steps call.
StatesStep == "insert_states"

DistrictsStep == "insert_districts"

FactsStep == "insert_mgnrega_data"

\* crud.<name>(db, records): the attribute is looked up on the module, then
\* called.
CallCrud(name, db, records) ==
    IF name \notin CrudFunctions THEN Result(db, "AttributeError", 0, None, 0, 0)
    ELSE IF name = "upsert_states" THEN upsert_states(db, records)
    ELSE IF name = "upsert_districts" THEN upsert_districts(db, records, batch_size)
    ELSE upsert_mgnrega_data(db, records)

\* What one run did: the committed storage afterwards, how the run ended, the
\* steps that returned, the steps that were entered, the record list the steps
\* were given, the write statements handed to the session, the commits made,
\* the exception that left the entry point and whether the session was closed.
RunResult(db, outcome, steps, started, handed, writes, commits, escaped, closed) ==
    [db |-> db, outcome |-> outcome, steps |-> steps, started |-> started,
     handed |-> handed, writes |-> writes, commits |-> commits,
     escaped |-> escaped, closed |-> closed]

\* What the API answered: requests raised (connection error, timeout, or
\* raise_for_status on a non-2xx status), the body was not JSON, or data.
FetchFailures == {"ConnectionError", "Timeout", "HTTPError"}

\* Steps 1 to 4 run in the one try block of the entry point: the first
\* exception leaves the block for the except Exception handler, which prints it.
\* Each operator below is one step given the result of the step before it; w
\* and c count the write statements and the commits of the steps so far.  The
\* session is still open when the block and its handlers are done.

\* Step 4, after step 3 gave s3.
CacheStep(data, records, w, c, s3) ==
    IF s3.exc # "none"
    THEN RunResult(s3.db, "error", <<"states", "districts">>,
                   <<"states", "districts", "facts">>, records,
                   w + s3.writes, c + s3.commits, "none", FALSE)
    ELSE LET s4 == save_raw_api_cache(s3.db, MGNREGA_API_URL, data)
         IN  RunResult(s4.db, "completed",
                       <<"states", "districts", "facts", "cache">>,
                       <<"states", "districts", "facts", "cache">>, records,
                       w + s3.writes + s4.writes, c + s3.commits + s4.commits,
                       "none", FALSE)

\* Step 3, after step 2 gave s2.
FactsStepOf(data, records, w, c, s2) ==
    IF s2.exc # "none"
    THEN RunResult(s2.db, "error", <<"states">>, <<"states", "districts">>,
                   records, w + s2.writes, c + s2.commits, "none", FALSE)
    ELSE CacheStep(data, records, w + s2.writes, c + s2.commits,
                   CallCrud(FactsStep, s2.db, records))

\* Step 2, after step 1 gave s1.
DistrictsStepOf(data, records, s1) ==
    IF s1.exc # "none"
    THEN RunResult(s1.db, "error", <<>>, <<"states">>, records, s1.writes,
                   s1.commits, "none", FALSE)
    ELSE FactsStepOf(data, records, s1.writes, s1.commits,
                     CallCrud(DistrictsStep, s1.db, records))

\* ProcessRecords with a seeded fault: records without a district code are
\* filtered out before the steps are called.
ProcessRecordsKeyedOnly(db, data, records) ==
    LET Keyed(record) == record.district_code \notin {None, ""}
        keyed == SelectSeq(records, Keyed)
    IN  DistrictsStepOf(data, keyed, CallCrud(StatesStep, db, keyed))

\* ProcessRecords with a seeded fault: the districts step is called before the
\* states step.
ProcessRecordsDistrictsFirst(db, data, records) ==
    LET s2 == CallCrud(DistrictsStep, db, records)
    IN  IF s2.exc # "none"
        THEN RunResult(s2.db, "error", <<>>, <<"districts">>, records,
                       s2.writes, s2.commits, "none", FALSE)
        ELSE FactsStepOf(data, records, s2.writes, s2.commits,
                         CallCrud(StatesStep, s2.db, records))

ProcessRecords(db, data, records) ==
    DistrictsStepOf(data, records, CallCrud(StatesStep, db, records))

\* records = data.get("records") if isinstance(data, dict) else data
RecordsOf(data) == IF data.shape = "dict_without_records" THEN <<>> ELSE data.records

\* finally: db.close(), on every way out of the try statement.
Finally(run) == [run EXCEPT !.closed = TRUE]

\* fetch_mgnrega_data with a seeded fault: no handler for
\* requests.RequestException, and the body of a failed response is cached
\* before its status is looked at.
fetch_mgnrega_data_unhandled(db, fetch) ==
    IF fetch.kind \in FetchFailures
    THEN RunResult([db EXCEPT !.raw_api_cache =
                       Append(@, [api_url |-> MGNREGA_API_URL,
                                  response_data |-> fetch,
                                  timestamp |-> Len(@) + 1])],
                   "network_error", <<>>, <<>>, <<>>, 1, 1, fetch.kind, TRUE)
    ELSE IF fetch.kind = "JSONDecodeError"
    THEN RunResult(db, "invalid_json", <<>>, <<>>, <<>>, 0, 0, "none", TRUE)
    ELSE IF RecordsOf(fetch) = <<>>
    THEN RunResult(db, "no_records", <<>>, <<>>, <<>>, 0, 0, "none", TRUE)
    ELSE Finally(ProcessRecords(db, fetch, RecordsOf(fetch)))

\* The try statement of the entry point without its finally clause: the request,
\* the two early returns, the four steps and the two except clauses.
TryBlock(db, fetch) ==
    IF fetch.kind \in FetchFailures
    THEN RunResult(db, "network_error", <<>>, <<>>, <<>>, 0, 0, "none", FALSE)
    ELSE IF fetch.kind = "JSONDecodeError"
    THEN RunResult(db, "invalid_json", <<>>, <<>>, <<>>, 0, 0, "none", FALSE)
    ELSE IF RecordsOf(fetch) = <<>>
    THEN RunResult(db, "no_records", <<>>, <<>>, <<>>, 0, 0, "none", FALSE)
    ELSE ProcessRecords(db, fetch, RecordsOf(fetch))

\* fetch_mgnrega_data with a seeded fault: db.close() is the last statement of
\* the try block instead of a finally clause, so only a run that gets to the
\* end of the block closes its session.
fetch_mgnrega_data_close_in_try(db, fetch) ==
    LET run == TryBlock(db, fetch)
    IN  [run EXCEPT !.closed = (run.outcome = "completed")]

fetch_mgnrega_data(db, fetch) ==
    Finally(TryBlock(db, fetch))

(***************************************************************************)
(* The state machine.                                                      *)
(***************************************************************************)
VARIABLES states, districts, mgnrega_data, raw_api_cache, last, repeat, running

vars == <<states, districts, mgnrega_data, raw_api_cache, last, repeat, running>>

\* The committed storage.
Cur == Storage(states, districts, mgnrega_data, raw_api_cache)

\* A JSON body: an object with a "records" array, a bare array, or an object
\* without "records".
Payloads ==
    {[kind |-> "ok", shape |-> sh, records |-> b] :
        sh \in {"dict", "list"}, b \in Batches}
    \cup {[kind |-> "ok", shape |-> "dict_without_records", records |-> <<>>]}

Fetches ==
    Payloads \cup
    {[kind |-> k, shape |-> "none", records |-> <<>>] :
        k \in FetchFailures \cup {"JSONDecodeError"}}

\* last: the operation that ran last, its input, the storage it started on
\* and what it gave back.
Op(op, input, r, outcome, steps, escaped, closed) ==
    [op |-> op, input |-> input, pre |-> Cur, exc |-> r.exc, count |-> r.count,
     status |-> r.status, writes |-> r.writes, commits |-> r.commits,
     outcome |-> outcome, steps |-> steps, started |-> <<>>, handed |-> <<>>,
     escaped |-> escaped, closed |-> closed]

Store(db) ==
    /\ states' = db.states
    /\ districts' = db.districts
    /\ mgnrega_data' = db.mgnrega_data
    /\ raw_api_cache' = db.raw_api_cache

Arg(records) == [kind |-> "call", shape |-> "list", records |-> records]

\* start_scheduler runs the job in two ways: the interval job of the
\* background scheduler, on one of its threads, and a direct call.
Runners == {"startup", "interval"}

\* running[r]: where runner r is (idle, or past the fetch with records in hand),
\* the API answer of its last run, how that run ended, the steps it entered,
\* and whether the run was under way while the other runner's was.
RunnerState(pc, input, outcome, started, raced) ==
    [pc |-> pc, input |-> input, outcome |-> outcome, started |-> started,
     raced |-> raced]

Init ==
    /\ running = [r \in Runners |->
                     RunnerState("idle", Arg(<<>>), "none", <<>>, FALSE)]
    /\ \E db \in InitStorages :
          /\ states = db.states
          /\ districts = db.districts
          /\ mgnrega_data = db.mgnrega_data
          /\ raw_api_cache = db.raw_api_cache
          /\ last = [op |-> "none", input |-> Arg(<<>>), pre |-> db,
                     exc |-> "none", count |-> 0, status |-> None, writes |-> 0,
                     commits |-> 0, outcome |-> "none", steps |-> <<>>,
                     started |-> <<>>, handed |-> <<>>, escaped |-> "none",
                     closed |-> TRUE]
    /\ repeat = FALSE

\* crud.upsert_states(db, records) on a session of its own.
UpsertStates ==
    \E records \in Batches :
        LET r == upsert_states(Cur, records)
        IN  /\ Store(r.db)
            /\ last' = Op("upsert_states", Arg(records), r, "none", <<>>, r.exc, TRUE)
            /\ repeat' = FALSE
            /\ UNCHANGED running

\* crud.upsert_districts(db, records) on a session of its own.
UpsertDistricts ==
    \E records \in Batches :
        LET r == upsert_districts(Cur, records, batch_size)
        IN  /\ Store(r.db)
            /\ last' = Op("upsert_districts", Arg(records), r, "none", <<>>, r.exc, TRUE)
            /\ repeat' = FALSE
            /\ UNCHANGED running

\* crud.upsert_mgnrega_data(db, records) on a session of its own.
UpsertMgnregaData ==
    \E records \in Batches :
        LET r == upsert_mgnrega_data(Cur, records)
        IN  /\ Store(r.db)
            /\ last' = Op("upsert_mgnrega_data", Arg(records), r, "none", <<>>,
                          r.exc, TRUE)
            /\ repeat' = FALSE
            /\ UNCHANGED running

\* crud.save_raw_api_cache(db, api_url, response_json) on a session of its own.
SaveRawApiCache ==
    \E data \in {p \in Payloads : p.shape = "dict"} :
        LET r == save_raw_api_cache(Cur, MGNREGA_API_URL, data)
        IN  /\ Store(r.db)
            /\ last' = Op("save_raw_api_cache", data, r, "none", <<>>, r.exc, TRUE)
            /\ repeat' = FALSE
            /\ UNCHANGED running

\* One run of the scheduled job (at process start, then every 24 hours).
\* repeat: the run before this one was a run on the same API answer.
FetchMgnregaData ==
    \E fetch \in Fetches :
        LET r == fetch_mgnrega_data(Cur, fetch)
        IN  /\ Store(r.db)
            /\ last' = [op |-> "fetch_mgnrega_data", input |-> fetch, pre |-> Cur,
                        exc |-> "none", count |-> 0, status |-> None,
                        writes |-> r.writes, commits |-> r.commits,
                        outcome |-> r.outcome, steps |-> r.steps,
                        started |-> r.started, handed |-> r.handed,
                        escaped |-> r.escaped, closed |-> r.closed]
            /\ repeat' = (last.op = "fetch_mgnrega_data" /\ last.input = fetch)
            /\ UNCHANGED running

Next ==
    \/ UpsertStates
    \/ UpsertDistricts
    \/ UpsertMgnregaData
    \/ SaveRawApiCache
    \/ FetchMgnregaData

Spec == Init /\ [][Next]_vars

(***************************************************************************)
(* Two runs under way at once.  Each run has a session of its own          *)
(* (SessionLocal() at the top of the entry point), so the runs meet only   *)
(* in the committed storage.  A run is two steps here: the fetch, up to    *)
(* the test for records, and the four write steps with their handlers.     *)
(***************************************************************************)
MaxRaceLen == 1

\* The API answers of the racing runs.
RaceFetches ==
    {f \in Fetches : f.shape # "list" /\ Len(f.records) <= MaxRaceLen}

\* db = SessionLocal(), the request and the tests up to "if not records":
\* a run without records ends here.
BeginRun(r) ==
    /\ running[r].pc = "idle"
    /\ \E fetch \in RaceFetches :
          LET q == CHOOSE o \in Runners : o # r
              ended == fetch_mgnrega_data(Cur, fetch)
          IN  IF fetch.kind = "ok" /\ RecordsOf(fetch) # <<>>
              THEN running' =
                      [running EXCEPT
                          ![r] = RunnerState("fetched", fetch, "running", <<>>,
                                             running[q].pc = "fetched"),
                          ![q] = [@ EXCEPT !.raced = @ \/ running[q].pc = "fetched"]]
              ELSE running' =
                      [running EXCEPT
                          ![r] = RunnerState("idle", fetch, ended.outcome,
                                             ended.started, FALSE)]
    /\ UNCHANGED <<states, districts, mgnrega_data, raw_api_cache, last, repeat>>

\* STEP 1 to STEP 4 on the records in hand, the except clauses and db.close().
FinishRun(r) ==
    /\ running[r].pc = "fetched"
    /\ LET res == Finally(ProcessRecords(Cur, running[r].input,
                                         RecordsOf(running[r].input)))
       IN  /\ Store(res.db)
           /\ running' = [running EXCEPT
                             ![r] = RunnerState("idle", @.input, res.outcome,
                                                res.started, @.raced)]
    /\ UNCHANGED <<last, repeat>>

NextRace == \E r \in Runners : BeginRun(r) \/ FinishRun(r)

SpecRace == Init /\ [][NextRace]_vars

(***************************************************************************)
(* Properties.                                                             *)
(***************************************************************************)
\* The State, District and Fact tables of a storage.
Tables(db) == <<db.states, db.districts, db.mgnrega_data>>

\* The records of the last operation's input.
LastRecords == RecordsOf(last.input)

\* The district rows a record's district_code resolves to.
Resolved(tbl, record) ==
    IF record.district_code \in {None, ""} THEN {}
    ELSE {d \in tbl : d.district_code = record.district_code}

NoDuplicateKeys(db) ==
    /\ \A a, b \in db.states : a.state_code = b.state_code => a = b
    /\ \A a, b \in db.districts : a.district_code = b.district_code => a = b
    /\ \A a, b \in db.mgnrega_data : a.district_id = b.district_id => a = b

C2_OneFactPerDistrict ==
    \A a, b \in mgnrega_data : a.district_id = b.district_id => a = b

\* C2 witness: a fact upsert ran on a list in which two records resolve to the
\* same district.
C2_Witness ==
    /\ last.op = "upsert_mgnrega_data"
    /\ \E i, j \in 1..Len(LastRecords) :
          /\ i < j
          /\ Resolved(last.pre.districts, LastRecords[i]) # {}
          /\ Resolved(last.pre.districts, LastRecords[i])
                = Resolved(last.pre.districts, LastRecords[j])

\* C3 (as claimed): after an upsert of two records with the same key and
\* different values, the stored row of that key holds the later record's values:
\* the state row of that code has the second name, the fact row of that district
\* has the second record's metric values.
C3_LastOccurrenceWins ==
    /\ (/\ last.op = "upsert_states"
        /\ Len(LastRecords) = 2
        /\ LastRecords[1].state_code = LastRecords[2].state_code
        /\ LastRecords[1].state_name # LastRecords[2].state_name)
       => \E r \in states :
             /\ r.state_code = LastRecords[2].state_code
             /\ r.state_name = LastRecords[2].state_name
    /\ (/\ last.op = "upsert_mgnrega_data"
        /\ Len(LastRecords) = 2
        /\ Resolved(districts, LastRecords[1]) # {}
        /\ Resolved(districts, LastRecords[1]) = Resolved(districts, LastRecords[2])
        /\ LastRecords[1].Approved_Labour_Budget
              # LastRecords[2].Approved_Labour_Budget
        /\ LastRecords[2].Approved_Labour_Budget # None)
       => \A d \in Resolved(districts, LastRecords[2]) :
             \E r \in mgnrega_data :
                /\ r.district_id = d.id
                /\ r.metrics = LastRecords[2].Approved_Labour_Budget

\* A fact record whose write succeeds on its own: it resolves to a district and
\* its metric values are present.
ValidFact(tbl, record) ==
    Resolved(tbl, record) # {} /\ record.Approved_Labour_Budget # None

\* A fact record whose write violates a column constraint (NOT NULL).
BadFact(tbl, record) ==
    Resolved(tbl, record) # {} /\ record.Approved_Labour_Budget = None

\* C4 (as claimed): a fact upsert of a batch with exactly one record that fails
\* its write, the others valid, raises nothing and stores every other record.
C4_BatchFaultIsolation ==
    (/\ last.op = "upsert_mgnrega_data"
     /\ Cardinality({i \in 1..Len(LastRecords) :
                        BadFact(districts, LastRecords[i])}) = 1
     /\ \E i \in 1..Len(LastRecords) : ValidFact(districts, LastRecords[i])
     /\ \A i \in 1..Len(LastRecords) :
           BadFact(districts, LastRecords[i]) \/ ValidFact(districts, LastRecords[i]))
    => /\ last.exc = "none"
       /\ \A i \in 1..Len(LastRecords) :
             ValidFact(districts, LastRecords[i]) =>
                \A d \in Resolved(districts, LastRecords[i]) :
                   \E r \in mgnrega_data :
                      /\ r.district_id = d.id
                      /\ r.metrics = LastRecords[i].Approved_Labour_Budget

\* C5 (as claimed): a district record whose state is not in storage is not
\* written, a fact record whose district is not in storage is not written, and
\* in both cases the call raises nothing.
C5_OrphanSkip ==
    /\ (/\ last.op = "upsert_districts"
        /\ \E i \in 1..Len(LastRecords) :
              ~(\E st \in states : st.id = LastRecords[i].State_ID))
       => /\ last.exc = "none"
          /\ \A d \in districts : \E st \in states : st.id = d.state_id
    /\ (/\ last.op = "upsert_mgnrega_data"
        /\ \E i \in 1..Len(LastRecords) : Resolved(districts, LastRecords[i]) = {})
       => /\ last.exc = "none"
          /\ \A r \in mgnrega_data : \E d \in districts : d.id = r.district_id

\* C6: a run whose fetch failed (connection error, timeout, non-2xx status, a
\* body that is not JSON) hands no write to the session, leaves the four tables
\* as they were, and lets no exception out of the entry point.
C6_FetchFailureWriteFree ==
    (/\ last.op = "fetch_mgnrega_data"
     /\ last.input.kind \in FetchFailures \cup {"JSONDecodeError"})
    => /\ Cur = last.pre
       /\ last.writes = 0
       /\ last.steps = <<>>
       /\ last.escaped = "none"

\* C6 witness: a run whose fetch failed, on a storage that holds rows.
C6_Witness ==
    /\ last.op = "fetch_mgnrega_data"
    /\ last.input.kind \in FetchFailures
    /\ last.outcome = "network_error"
    /\ mgnrega_data # {}

\* C7 (as claimed): a run that fetched records executes all four steps whatever
\* a step raises, and the fact upsert raises no write failure to its caller.
C7_ErrorContainment ==
    /\ (/\ last.op = "fetch_mgnrega_data"
        /\ last.input.kind = "ok"
        /\ LastRecords # <<>>)
       => last.steps = <<"states", "districts", "facts", "cache">>
    /\ last.op = "upsert_mgnrega_data" => last.exc = "none"

\* C8: the cache writer raises nothing; when no entry was stored it returns the
\* status "error"; and the State, District and Fact rows are those from before
\* the call.
C8_CacheWriterNeverRaises ==
    last.op = "save_raw_api_cache" =>
       /\ last.exc = "none"
       /\ raw_api_cache = last.pre.raw_api_cache => last.status = "error"
       /\ last.status \in {"saved", "error"}
       /\ Tables(Cur) = Tables(last.pre)

\* C8 witness: a cache write failed on a storage that holds State, District and
\* Fact rows.
C8_Witness ==
    /\ last.op = "save_raw_api_cache"
    /\ last.status = "error"
    /\ raw_api_cache = last.pre.raw_api_cache
    /\ states # {} /\ districts # {} /\ mgnrega_data # {}

\* C9 (as claimed): every run whose fetch returned a payload appends one cache
\* entry that holds that payload and the request URL.
C9_RawPayloadPersisted ==
    (last.op = "fetch_mgnrega_data" /\ last.input.kind = "ok")
    => /\ Len(raw_api_cache) = Len(last.pre.raw_api_cache) + 1
       /\ raw_api_cache[Len(raw_api_cache)].response_data = last.input
       /\ raw_api_cache[Len(raw_api_cache)].api_url = MGNREGA_API_URL

\* The district ids a batch resolves to.
Touched(tbl, records) ==
    {d.id : d \in UNION {Resolved(tbl, records[i]) : i \in 1..Len(records)}}

\* The district and values of the rows of the given districts.
FactValues(tbl, ids) ==
    {<<r.district_id, r.metrics>> : r \in {x \in tbl : x.district_id \in ids}}

\* C10 (as claimed): a fact upsert into a table that already holds a row for
\* each district of the batch ends with the rows, for those districts, that the
\* same batch gives on an empty fact table.
C10_FastSlowEquivalence ==
    LET ids == Touched(last.pre.districts, LastRecords)
        onEmpty == upsert_mgnrega_data([last.pre EXCEPT !.mgnrega_data = {}],
                                       LastRecords).db.mgnrega_data
    IN  (/\ last.op = "upsert_mgnrega_data"
         /\ \A i \in ids : \E r \in last.pre.mgnrega_data : r.district_id = i)
        => FactValues(mgnrega_data, ids) = FactValues(onEmpty, ids)

\* C11 (as claimed): no two state rows share a state code; after a states
\* upsert the table holds a row for every state code its records carry, named
\* as the last record that carries the code; and every state row stored before
\* the call is still stored, with the id and the code it had.
C11_StateRowPerCode ==
    /\ \A a, b \in states : a.state_code = b.state_code => a = b
    /\ last.op = "upsert_states" =>
          /\ \A i \in 1..Len(LastRecords) :
                (\A k \in (i + 1)..Len(LastRecords) :
                    LastRecords[k].state_code # LastRecords[i].state_code)
                => \E st \in states :
                      /\ st.state_code = LastRecords[i].state_code
                      /\ st.state_name = LastRecords[i].state_name
          /\ \A old \in last.pre.states :
                \E st \in states :
                   st.id = old.id /\ st.state_code = old.state_code

StepOrder == <<"states", "districts", "facts", "cache">>

IsPrefix(s, t) == Len(s) <= Len(t) /\ s = SubSeq(t, 1, Len(s))

C14_ReferentialIntegrity ==
    /\ \A r \in mgnrega_data : \E d \in districts : d.id = r.district_id
    /\ \A d \in districts : \E st \in states : st.id = d.state_id

\* C14 witness: a districts upsert was given a record whose State_ID is the id
\* of no stored state row, on a storage that holds district rows.
C14_Witness ==
    /\ last.op = "upsert_districts"
    /\ districts # {}
    /\ \E i \in 1..Len(LastRecords) :
          /\ LastRecords[i].District_Code \notin {None, ""}
          /\ ~(\E st \in last.pre.states : st.id = LastRecords[i].State_ID)

\* C15 (as claimed): after a fact upsert of one record for a district that
\* already has a fact row, the call has returned, that row holds the record's
\* metric values, and the update also assigns remarks and the record timestamp
\* from the incoming record.
C15_ConflictUpdateComplete ==
    (/\ last.op = "upsert_mgnrega_data"
     /\ Len(LastRecords) = 1
     /\ \E d \in Resolved(last.pre.districts, LastRecords[1]) :
           \E r \in last.pre.mgnrega_data : r.district_id = d.id)
    => /\ last.exc = "none"
       /\ \A d \in Resolved(districts, LastRecords[1]) :
             \A r \in mgnrega_data :
                r.district_id = d.id =>
                   r.metrics = LastRecords[1].Approved_Labour_Budget
       /\ {"remarks", "timestamp"} \subseteq FactExcludedColumns

\* C16 (as claimed): the count a fact upsert returns is the number of fact
\* statements the call executed, one for each record whose district code
\* resolves: a record passed over for an empty or unresolved district code is
\* not counted.
C16_CountIsRowsWritten ==
    (last.op = "upsert_mgnrega_data" /\ last.exc = "none")
    => /\ last.count = last.writes
       /\ last.count = Cardinality({i \in 1..Len(LastRecords) :
                                       Resolved(last.pre.districts, LastRecords[i]) # {}})

\* A record whose district code is missing or empty.
EmptyKey(record) == record.district_code \in {None, ""}

C18_NoOpWhenNothingMissing ==
    /\ (/\ last.op = "upsert_states"
        /\ LastRecords # <<>>
        /\ \A i \in 1..Len(LastRecords) :
              \E st \in last.pre.states :
                 st.state_code = LastRecords[i].state_code)
       => /\ last.writes = 0
          /\ last.exc = "none"
          /\ states = last.pre.states
          /\ districts = last.pre.districts
    /\ (/\ last.op = "upsert_districts"
        /\ LastRecords # <<>>
        /\ \A i \in 1..Len(LastRecords) :
              \E d \in last.pre.districts :
                 d.district_code = LastRecords[i].District_Code)
       => /\ last.writes = 0
          /\ last.exc = "none"
          /\ states = last.pre.states
          /\ districts = last.pre.districts

\* C19 (as claimed): when the two runners' last runs were under way at the same
\* time on records that carry the same state code, both runs went through all
\* four steps with no step failing, and storage holds exactly one state row of
\* that code.
C19_RacingRunsDoNotFail ==
    \A r, q \in Runners :
       \A i \in 1..Len(RecordsOf(running[r].input)) :
          \A j \in 1..Len(RecordsOf(running[q].input)) :
             (/\ r # q
              /\ running[r].pc = "idle" /\ running[q].pc = "idle"
              /\ running[r].raced /\ running[q].raced
              /\ RecordsOf(running[r].input)[i].state_code
                    = RecordsOf(running[q].input)[j].state_code)
             => /\ running[r].outcome = "completed"
                /\ running[q].outcome = "completed"
                /\ Cardinality({st \in states :
                      st.state_code = RecordsOf(running[r].input)[i].state_code}) = 1

\* C20 (as claimed): a states or districts upsert that handed a write to the
\* session raises nothing to its caller, whatever the write did, and keeps the
\* rows stored before it; and a run that entered its states step goes on to
\* enter its fact step.
C20_LocalRecovery ==
    /\ (last.op \in {"upsert_states", "upsert_districts"} /\ last.writes > 0)
       => /\ last.exc = "none"
          /\ last.pre.states \subseteq states
          /\ last.pre.districts \subseteq districts
    /\ (last.op = "fetch_mgnrega_data" /\ last.started # <<>>)
       => IsPrefix(<<"states", "districts", "facts">>, last.started)

\* C21: after every run of the entry point, however it ended (the steps ran to
\* the end, the body was not JSON, the record list was empty, the request
\* failed, or a step raised), the session the run opened is closed and no
\* exception has left the entry point.
C21_SessionReleased ==
    last.op = "fetch_mgnrega_data" =>
       /\ last.outcome \in {"completed", "invalid_json", "no_records",
                            "network_error", "error"}
       /\ last.closed
       /\ last.escaped = "none"

\* C21 witness: a run ended in the except Exception clause, after a step raised,
\* on a storage that holds rows.
C21_Witness ==
    /\ last.op = "fetch_mgnrega_data"
    /\ last.outcome = "error"
    /\ last.started # <<>>
    /\ last.closed
    /\ mgnrega_data # {}

====
